---- MODULE Spec2Model ----
(***************************************************************************)
(* smart-dbf-watchdog: the single-instance lock of the supervisor          *)
(* (src/src/lock_manager.py) and the supervisor's main loop (src/main.py). *)
(*                                                                         *)
(* Supervisor instances are operating-system processes; instance p has     *)
(* process id p.  They share two resources: the named Windows mutex and    *)
(* the lock file watchdog.lock.  Every access to a shared resource is one  *)
(* step; the local statements around it belong to the same step.           *)
(*                                                                         *)
(* Time is kept as ages, in seconds: the code only ever uses differences   *)
(* (datetime.now() - lock_time), so a record carries the seconds since its *)
(* timestamp was written.  Ages saturate at the TTL: the code compares an  *)
(* age with the TTL and nothing else.                                      *)
(***************************************************************************)
EXTENDS Integers, FiniteSets, Sequences, TLC

\* ------------------------------------------------------------------ bounds
NumProcs == 2
MaxOOB == 1

\* --------------------------------------------------------------- constants
LOCK_TIMEOUT_MINUTES == 5
max_retries == 3

Procs == 1..NumProcs
\* The process id of a supervisor that ended before the instances started.
OldPid == NumProcs + 1
LOCK_TTL_SECONDS == LOCK_TIMEOUT_MINUTES * 60
\* The environment lets time pass in steps of half a TTL.
HalfTTL == LOCK_TTL_SECONDS \div 2

VARIABLES
    lockFile,        \* watchdog.lock on disk
    mutexAvailable,  \* the platform offers ctypes.windll (constant of a run)
    alive,           \* alive[p]: process p is in the process table
    pc,              \* pc[p]: where instance p stands
    attempt,         \* the loop variable of check_and_acquire
    lock_pid,        \* the pid check_and_acquire read from the file
    owns_lock,       \* LockManager.owns_lock
    mutex_handle,    \* LockManager._mutex_handle is set
    last_refresh,    \* seconds since LockManager._last_refresh, -1 for None
    ret,             \* what check_and_acquire returned: "none", "true", "false"
    rret,            \* what the last refresh_lock returned
    obs,             \* what check_and_acquire last saw of the lock file
    fault,           \* an I/O fault was injected
    oob,             \* number of out-of-band changes made to the lock file
    \* main() of the supervisor Sup
    mpc,                 \* where main stands
    stopFile,            \* stop.txt: "absent", "unreadable", or its content
    worker,              \* the worker's lock artifact smart_dbf.lock
    since_lock_refresh,  \* seconds since last_lock_refresh (saturates at the interval)
    errores_recientes,
    estado,              \* what check_app_status returned in this cycle
    sleep_left,          \* interruptible_sleep: seconds - elapsed
    sleep_site,          \* which call of interruptible_sleep is running
    current_hour,        \* datetime.now().hour read in this cycle
    exit_code,           \* the process's exit status, -1 while it runs
    remove_calls,        \* calls of remove_lock made at exit
    appeared,            \* the artifact was written since start_app launched
    \* AppWatchdog's reading of smart_dbf.lock, called on its own
    artifact,            \* the content of the worker's artifact
    timeout,             \* AppWatchdog.timeout_minutes
    data,                \* what _read_lock_file returned
    lock_age,            \* what _get_lock_age_minutes returned
    status,              \* what check_app_status returned
    \* a lock record of LockManager written and read back, on its own
    now,                 \* datetime.now() at the write
    getpid,              \* os.getpid() of the writing process
    written,             \* the text of watchdog.lock after the write
    verify_data,         \* what json.load made of it
    lock_time,           \* what strptime made of its timestamp
    writer               \* the method that wrote last

lockVars == <<lockFile, mutexAvailable, alive, pc, attempt, lock_pid, owns_lock,
              mutex_handle, last_refresh, ret, rret, obs, fault, oob>>

statusVars == <<artifact, timeout, data, lock_age, status>>

recordVars == <<now, getpid, written, verify_data, lock_time, writer>>

mainVars == <<mpc, stopFile, worker, since_lock_refresh, errores_recientes, estado,
              sleep_left, sleep_site, current_hour, exit_code, remove_calls,
              appeared, statusVars, recordVars>>

vars == <<lockVars, mainVars>>

\* --------------------------------------------------------------- the file
Absent == [st |-> "absent", pid |-> 0, age |-> 0, type |-> ""]
Corrupt == [st |-> "corrupt", pid |-> 0, age |-> 0, type |-> ""]
Record(pid, age, type) == [st |-> "ok", pid |-> pid, age |-> age, type |-> type]

\* lock_data of check_and_acquire and refresh_lock: timestamp now, own pid.
NewLockData(p) == Record(p, 0, "watchdog")

Exists(f) == f.st # "absent"

Min(a, b) == IF a < b THEN a ELSE b

\* The file d seconds later.
Aged(f, d) == IF f.st = "ok" THEN [f EXCEPT !.age = Min(f.age + d, LOCK_TTL_SECONDS)] ELSE f

\* minutes_old < self.LOCK_TIMEOUT_MINUTES, in seconds
LockIsFreshNever(age) == FALSE
LockIsFreshHalfTTL(age) == age < HalfTTL
LockIsFresh(age) == age < LOCK_TTL_SECONDS

IsAlive(pid) == pid \in Procs /\ alive[pid]

\* tasklist finds the pid
IsProcessRunningNever(pid) == FALSE
IsProcessRunning(pid) == IsAlive(pid)

\* The named mutex exists while a process holds a handle to it.
MutexExists == \E q \in Procs : alive[q] /\ mutex_handle[q]

\* GetLastError() == ERROR_ALREADY_EXISTS after CreateMutexW
AlreadyExistsNever == FALSE
AlreadyExists == MutexExists

NoObs == [st |-> "none", fresh |-> FALSE, ownerAlive |-> FALSE]
\* What is true of the file f: its state, whether it is younger than the TTL
\* and whether its owner is a live process.
Seen(f) == [st |-> f.st, fresh |-> f.st = "ok" /\ f.age < LOCK_TTL_SECONDS,
            ownerAlive |-> f.st = "ok" /\ IsAlive(f.pid)]

\* ------------------------------------------------------- the worker's artifact
\* CONFIG
timeout_minutes == 70
check_interval_minutes == 15
wait_after_action_minutes == 2
check_interval == check_interval_minutes * 60
wait_after_action == wait_after_action_minutes * 60
\* CONFIG["time_ranges"]: any(start <= current_hour < end ...)
InSchedule(h) == (0 <= h /\ h < 6) \/ (9 <= h /\ h < 24)

\* smart_dbf.lock: absent, unusable (no age can be computed from it) or a
\* record with the age of its timestamp in minutes
NoArtifact == [st |-> "absent", age |-> 0]
BadArtifact == [st |-> "unparsable", age |-> 0]
Artifact(age) == [st |-> "ok", age |-> age]

\* What the file smart_dbf.lock can hold, as far as AppWatchdog tells apart:
\*   exists    self.lock_file.exists() of check_app_status (of _read_lock_file
\*             when that is called on its own)
\*   readable  the file is still there and opens when _read_lock_file reads it
\*   json      what json.load makes of it: "invalid" (it raises), "nondict" (null,
\*             a list, a string, a number), "empty" ({}), "object"
\*   ts        the value under 'timestamp': "missing", "empty", "malformed" (not
\*             in lock_time_format), "number", "ok"
\*   age       seconds from the timestamp to now
Content(exists, readable, json, ts, age) ==
    [exists |-> exists, readable |-> readable, json |-> json, ts |-> ts, age |-> age]

None == [kind |-> "None", nonempty |-> FALSE, ts |-> "missing", age |-> 0]
NotCalled == [kind |-> "not called", nonempty |-> FALSE, ts |-> "missing", age |-> 0]
Dict(nonempty, ts, age) == [kind |-> "dict", nonempty |-> nonempty, ts |-> ts, age |-> age]
NoAge == [some |-> FALSE, seconds |-> 0]
Age(seconds) == [some |-> TRUE, seconds |-> seconds]

\* AppWatchdog._read_lock_file: None when the file is missing or the open,
\* json.load or data.get raises; else the parsed object
read_lock_file(c) ==
    IF ~c.exists \/ ~c.readable THEN None
    ELSE IF c.json \in {"invalid", "nondict"} THEN None
    ELSE IF c.json = "empty" THEN Dict(FALSE, "missing", 0)
    ELSE Dict(TRUE, c.ts, c.age)

\* bool(data): None and {} are false
Truthy(d) == d.kind = "dict" /\ d.nonempty

\* _get_lock_age_minutes taking any non-empty timestamp for a time
get_lock_age_minutes_any_stamp(c) ==
    LET d == read_lock_file(c) IN
    IF ~Truthy(d) THEN NoAge
    ELSE IF d.ts \in {"missing", "empty"} THEN NoAge
    ELSE Age(d.age)

\* AppWatchdog._get_lock_age_minutes, the age kept in seconds: None without
\* data, without a timestamp (missing or ''), or when strptime raises
get_lock_age_minutes(c) ==
    LET d == read_lock_file(c) IN
    IF ~Truthy(d) THEN NoAge
    ELSE IF d.ts \in {"missing", "empty"} THEN NoAge
    ELSE IF d.ts # "ok" THEN NoAge
    ELSE Age(d.age)

\* check_app_status deciding with >= where the code has >
check_app_status_at_least(c, tmo) ==
    IF ~c.exists THEN "not_running"
    ELSE LET lock_age_ == get_lock_age_minutes(c) IN
         IF ~lock_age_.some THEN "running_ok"
         ELSE IF lock_age_.seconds >= tmo * 60 THEN "hung"
         ELSE "running_ok"

\* AppWatchdog.check_app_status with self.timeout_minutes = tmo
check_app_status(c, tmo) ==
    IF ~c.exists THEN "not_running"
    ELSE LET lock_age_ == get_lock_age_minutes(c) IN
         IF ~lock_age_.some THEN "running_ok"
         ELSE IF lock_age_.seconds > tmo * 60 THEN "hung"
         ELSE "running_ok"

\* The artifacts main's model tells apart, as contents.
ContentOf(w) ==
    CASE w.st = "absent" -> Content(FALSE, FALSE, "invalid", "missing", 0)
      [] w.st = "ok" -> Content(TRUE, TRUE, "object", "ok", w.age * 60)
      [] OTHER -> Content(TRUE, TRUE, "invalid", "missing", 0)

\* ------------------------------------------------- the lock record as text
TIMESTAMP_FORMAT == "%Y-%m-%d %H:%M:%S"

\* A datetime: whole seconds and microseconds.
Time(sec, usec) == [sec |-> sec, usec |-> usec]
\* strptime raised
NoTime == Time(-1, 0)

\* A str holding a time: its layout and the seconds it shows.  A layout
\* without %f shows no microseconds.
Stamp(layout, sec) == [layout |-> layout, sec |-> sec]

\* t.isoformat() where the code has t.strftime(fmt)
isoformat(t, fmt) == Stamp("isoformat", t.sec)

\* t.strftime(fmt)
strftime(t, fmt) == Stamp(fmt, t.sec)

\* datetime.strptime(s, fmt): the time shown, or it raises
strptime(s, fmt) == IF s.layout = fmt THEN Time(s.sec, 0) ELSE NoTime

\* what json.load raises on, and what .get then cannot be asked
NoData == [timestamp |-> Stamp("", 0), pid |-> 0, type |-> ""]

\* lock_data of check_and_acquire and of refresh_lock, built by process pid at t
lock_data(pid, t) ==
    [timestamp |-> strftime(t, TIMESTAMP_FORMAT), pid |-> pid, type |-> "watchdog"]

\* The text of a file: a JSON document with its members, or not one.
NoText == [valid |-> FALSE, members |-> NoData]
\* json.dump(d, f, indent=2)
json_dump(d) == [valid |-> TRUE, members |-> d]
\* json.load(f)
json_load(text) == IF text.valid THEN text.members ELSE NoData

\* ------------------------------------------------------------------- init
InitFiles == {Absent, Corrupt, Record(OldPid, 0, "watchdog"),
              Record(OldPid, LOCK_TTL_SECONDS, "watchdog")}

InitLock ==
    /\ lockFile \in InitFiles
    /\ mutexAvailable \in BOOLEAN
    /\ alive = [p \in Procs |-> TRUE]
    /\ pc = [p \in Procs |-> "idle"]
    /\ attempt = [p \in Procs |-> 0]
    /\ lock_pid = [p \in Procs |-> 0]
    /\ owns_lock = [p \in Procs |-> FALSE]
    /\ mutex_handle = [p \in Procs |-> FALSE]
    /\ last_refresh = [p \in Procs |-> -1]
    /\ ret = [p \in Procs |-> "none"]
    /\ rret = [p \in Procs |-> "none"]
    /\ obs = [p \in Procs |-> NoObs]
    /\ fault = FALSE
    /\ oob = 0

\* main not started, no stop.txt, no worker artifact
InitMainIdle ==
    /\ mpc = "start"
    /\ stopFile = "absent"
    /\ worker = NoArtifact
    /\ since_lock_refresh = 0
    /\ errores_recientes = 0
    /\ estado = "none"
    /\ sleep_left = 0
    /\ sleep_site = "none"
    /\ current_hour = 0
    /\ exit_code = -1
    /\ remove_calls = 0
    /\ appeared = FALSE

\* no AppWatchdog method called on its own
InitStatusIdle ==
    /\ artifact = ContentOf(NoArtifact)
    /\ timeout = timeout_minutes
    /\ data = NotCalled
    /\ lock_age = NoAge
    /\ status = "not called"

\* no record written on its own
InitRecordIdle ==
    /\ now = Time(0, 0)
    /\ getpid = 1
    /\ written = NoText
    /\ verify_data = NoData
    /\ lock_time = NoTime
    /\ writer = "none"

Init == InitLock /\ InitMainIdle /\ InitStatusIdle /\ InitRecordIdle

\* ------------------------------------------------------ check_and_acquire
At(p, where) == alive[p] /\ pc[p] = where

Goto(p, where) == pc' = [pc EXCEPT ![p] = where]

\* check_and_acquire returns v
Return(p, v) ==
    /\ ret' = [ret EXCEPT ![p] = v]
    /\ pc' = [pc EXCEPT ![p] = "ready"]

\* PASO 1: CreateMutexW, GetLastError
CreateMutex(p) ==
    /\ At(p, "idle")
    /\ IF ~mutexAvailable
         THEN /\ Return(p, "false")
              /\ UNCHANGED mutex_handle
         ELSE /\ mutex_handle' = [mutex_handle EXCEPT ![p] = TRUE]
              /\ IF AlreadyExists THEN Goto(p, "mutex_lost") ELSE Goto(p, "attempt")
              /\ UNCHANGED ret
    /\ UNCHANGED <<lockFile, mutexAvailable, alive, attempt, lock_pid, owns_lock,
                   last_refresh, rret, obs, fault, oob>>
    /\ UNCHANGED mainVars

\* the mutex already exists: return False with the handle left open
MutexLostKeepsHandle(p) ==
    /\ At(p, "mutex_lost")
    /\ Return(p, "false")
    /\ UNCHANGED <<lockFile, mutexAvailable, alive, attempt, lock_pid, owns_lock,
                   mutex_handle, last_refresh, rret, obs, fault, oob>>
    /\ UNCHANGED mainVars

\* the mutex already exists: CloseHandle, return False
MutexLost(p) ==
    /\ At(p, "mutex_lost")
    /\ mutex_handle' = [mutex_handle EXCEPT ![p] = FALSE]
    /\ Return(p, "false")
    /\ UNCHANGED <<lockFile, mutexAvailable, alive, attempt, lock_pid, owns_lock,
                   last_refresh, rret, obs, fault, oob>>
    /\ UNCHANGED mainVars

\* PASO 2 entered without PASO 1: the file-based steps alone
SkipMutex(p) ==
    /\ At(p, "idle")
    /\ Goto(p, "attempt")
    /\ UNCHANGED <<lockFile, mutexAvailable, alive, attempt, lock_pid, owns_lock,
                   mutex_handle, last_refresh, ret, rret, obs, fault, oob>>
    /\ UNCHANGED mainVars

\* top of an attempt (after its wait): self.lock_path.exists()
ExistsCheck(p) ==
    /\ At(p, "attempt")
    /\ IF Exists(lockFile)
         THEN Goto(p, "read") /\ UNCHANGED obs
         ELSE Goto(p, "create") /\ obs' = [obs EXCEPT ![p] = Seen(lockFile)]
    /\ UNCHANGED <<lockFile, mutexAvailable, alive, attempt, lock_pid, owns_lock,
                   mutex_handle, last_refresh, ret, rret, fault, oob>>
    /\ UNCHANGED mainVars

\* open, json.load, strptime, the decision on minutes_old
ReadLock(p) ==
    /\ At(p, "read")
    /\ obs' = [obs EXCEPT ![p] = Seen(lockFile)]
    /\ IF lockFile.st # "ok"
         THEN Goto(p, "unlink_corrupt") /\ UNCHANGED <<ret, lock_pid>>
         ELSE IF LockIsFresh(lockFile.age)
                THEN Return(p, "false") /\ UNCHANGED lock_pid
                ELSE /\ Goto(p, "liveness")
                     /\ lock_pid' = [lock_pid EXCEPT ![p] = lockFile.pid]
                     /\ UNCHANGED ret
    /\ UNCHANGED <<lockFile, mutexAvailable, alive, attempt, owns_lock,
                   mutex_handle, last_refresh, rret, fault, oob>>
    /\ UNCHANGED mainVars

\* self._is_process_running(lock_pid)
CheckOwner(p) ==
    /\ At(p, "liveness")
    /\ obs' = [obs EXCEPT ![p].ownerAlive = IsAlive(lock_pid[p])]
    /\ \/ /\ IF IsProcessRunning(lock_pid[p])
               THEN Return(p, "false")
               ELSE Goto(p, "remove_orphan") /\ UNCHANGED ret
          /\ UNCHANGED fault
       \/ \* the query itself fails: assume running
          /\ ~fault /\ ~IsAlive(lock_pid[p])
          /\ fault' = TRUE
          /\ Return(p, "false")
    /\ UNCHANGED <<lockFile, mutexAvailable, alive, attempt, lock_pid, owns_lock,
                   mutex_handle, last_refresh, rret, oob>>
    /\ UNCHANGED mainVars

\* self._is_process_running(lock_pid) when tasklist itself fails without an
\* exception in the caller: it ends with an error status and nothing on stdout
\* (subprocess.run has no check=True), so str(pid) is not in the output and
\* the method returns False, whether the process is there or not.
CheckOwnerQueryError(p) ==
    /\ At(p, "liveness")
    /\ ~fault
    /\ fault' = TRUE
    /\ obs' = [obs EXCEPT ![p].ownerAlive = IsAlive(lock_pid[p])]
    /\ Goto(p, "remove_orphan")
    /\ UNCHANGED <<lockFile, mutexAvailable, alive, attempt, lock_pid, owns_lock,
                   mutex_handle, last_refresh, ret, rret, oob>>
    /\ UNCHANGED mainVars

\* _remove_orphaned_lock: unlink if the file exists
RemoveOrphanNothing(p) ==
    /\ At(p, "remove_orphan")
    /\ Goto(p, "create")
    /\ UNCHANGED <<lockFile, mutexAvailable, alive, attempt, lock_pid, owns_lock,
                   mutex_handle, last_refresh, ret, rret, obs, fault, oob>>
    /\ UNCHANGED mainVars
RemoveOrphan(p) ==
    /\ At(p, "remove_orphan")
    /\ lockFile' = Absent
    /\ Goto(p, "create")
    /\ UNCHANGED <<mutexAvailable, alive, attempt, lock_pid, owns_lock,
                   mutex_handle, last_refresh, ret, rret, obs, fault, oob>>
    /\ UNCHANGED mainVars

\* except Exception: the error logged, the file left in place
UnlinkCorruptNothing(p) ==
    /\ At(p, "unlink_corrupt")
    /\ Goto(p, "create")
    /\ UNCHANGED <<lockFile, mutexAvailable, alive, attempt, lock_pid, owns_lock,
                   mutex_handle, last_refresh, ret, rret, obs, fault, oob>>
    /\ UNCHANGED mainVars

\* except Exception: self.lock_path.unlink(missing_ok=True)
UnlinkCorrupt(p) ==
    /\ At(p, "unlink_corrupt")
    /\ lockFile' = Absent
    /\ Goto(p, "create")
    /\ UNCHANGED <<mutexAvailable, alive, attempt, lock_pid, owns_lock,
                   mutex_handle, last_refresh, ret, rret, obs, fault, oob>>
    /\ UNCHANGED mainVars

\* the exclusive create in a loop without a bound (while True)
CreateLockKeepsTrying(p) ==
    /\ At(p, "create")
    /\ \/ /\ ~Exists(lockFile)
          /\ lockFile' = NewLockData(p)
          /\ owns_lock' = [owns_lock EXCEPT ![p] = TRUE]
          /\ last_refresh' = [last_refresh EXCEPT ![p] = 0]
          /\ Goto(p, "verify")
          /\ UNCHANGED <<attempt, ret, fault>>
       \/ /\ Exists(lockFile)
          /\ attempt' = [attempt EXCEPT ![p] = Min(attempt[p] + 1, max_retries - 1)]
          /\ Goto(p, "attempt")
          /\ UNCHANGED <<lockFile, owns_lock, last_refresh, fault, ret>>
       \/ /\ ~fault
          /\ fault' = TRUE
          /\ Return(p, "false")
          /\ UNCHANGED <<lockFile, owns_lock, last_refresh, attempt>>
    /\ UNCHANGED <<mutexAvailable, alive, lock_pid, mutex_handle, rret, obs, oob>>
    /\ UNCHANGED mainVars

\* the exclusive create treating every error as FileExistsError: continue
CreateLockRetriesOnError(p) ==
    /\ At(p, "create")
    /\ \/ /\ ~Exists(lockFile)
          /\ lockFile' = NewLockData(p)
          /\ owns_lock' = [owns_lock EXCEPT ![p] = TRUE]
          /\ last_refresh' = [last_refresh EXCEPT ![p] = 0]
          /\ Goto(p, "verify")
          /\ UNCHANGED <<attempt, ret, fault>>
       \/ /\ Exists(lockFile) \/ ~fault
          /\ fault' = (fault \/ ~Exists(lockFile))
          /\ IF attempt[p] + 1 < max_retries
               THEN /\ attempt' = [attempt EXCEPT ![p] = attempt[p] + 1]
                    /\ Goto(p, "attempt")
                    /\ UNCHANGED ret
               ELSE Return(p, "false") /\ UNCHANGED attempt
          /\ UNCHANGED <<lockFile, owns_lock, last_refresh>>
    /\ UNCHANGED <<mutexAvailable, alive, lock_pid, mutex_handle, rret, obs, oob>>
    /\ UNCHANGED mainVars

\* open(self.lock_path, 'x') and json.dump
CreateLock(p) ==
    /\ At(p, "create")
    /\ \/ /\ ~Exists(lockFile)
          /\ lockFile' = NewLockData(p)
          /\ owns_lock' = [owns_lock EXCEPT ![p] = TRUE]
          /\ last_refresh' = [last_refresh EXCEPT ![p] = 0]
          /\ Goto(p, "verify")
          /\ UNCHANGED <<attempt, ret, fault>>
       \/ \* FileExistsError: continue, or leave the loop after the last attempt
          /\ Exists(lockFile)
          /\ IF attempt[p] + 1 < max_retries
               THEN /\ attempt' = [attempt EXCEPT ![p] = attempt[p] + 1]
                    /\ Goto(p, "attempt")
                    /\ UNCHANGED ret
               ELSE Return(p, "false") /\ UNCHANGED attempt
          /\ UNCHANGED <<lockFile, owns_lock, last_refresh, fault>>
       \/ \* any other error of the create
          /\ ~fault
          /\ fault' = TRUE
          /\ Return(p, "false")
          /\ UNCHANGED <<lockFile, owns_lock, last_refresh, attempt>>
    /\ UNCHANGED <<mutexAvailable, alive, lock_pid, mutex_handle, rret, obs, oob>>
    /\ UNCHANGED mainVars

\* no re-read: return True after the create
VerifyLockAccepts(p) ==
    /\ At(p, "verify")
    /\ Return(p, "true")
    /\ UNCHANGED <<lockFile, mutexAvailable, alive, attempt, lock_pid, owns_lock,
                   mutex_handle, last_refresh, rret, obs, fault, oob>>
    /\ UNCHANGED mainVars

\* the re-read: verify_data.get('pid') != os.getpid()
VerifyLock(p) ==
    /\ At(p, "verify")
    /\ IF lockFile.st = "ok" /\ lockFile.pid = p
         THEN Return(p, "true") /\ UNCHANGED owns_lock
         ELSE /\ owns_lock' = [owns_lock EXCEPT ![p] = FALSE]
              /\ Return(p, "false")
    /\ UNCHANGED <<lockFile, mutexAvailable, alive, attempt, lock_pid,
                   mutex_handle, last_refresh, rret, obs, fault, oob>>
    /\ UNCHANGED mainVars

\* ------------------------------------------------------------ refresh_lock
\* the two guards of refresh_lock
RefreshCheckL(p) ==
    /\ At(p, "ready")
    /\ IF owns_lock[p] /\ Exists(lockFile)
         THEN Goto(p, "refresh_write") /\ UNCHANGED rret
         ELSE rret' = [rret EXCEPT ![p] = "false"] /\ UNCHANGED pc
    /\ UNCHANGED <<lockFile, mutexAvailable, alive, attempt, lock_pid, owns_lock,
                   mutex_handle, last_refresh, ret, obs, fault, oob>>

\* open(self.lock_path, 'w') and json.dump
RefreshWriteLKeepsTime(p) ==
    /\ At(p, "refresh_write")
    /\ lockFile' = IF lockFile.st = "ok" THEN [lockFile EXCEPT !.pid = p] ELSE NewLockData(p)
    /\ last_refresh' = [last_refresh EXCEPT ![p] = 0]
    /\ rret' = [rret EXCEPT ![p] = "true"]
    /\ Goto(p, "ready")
    /\ UNCHANGED <<mutexAvailable, alive, attempt, lock_pid, owns_lock,
                   mutex_handle, ret, obs, fault, oob>>
RefreshWriteL(p) ==
    /\ At(p, "refresh_write")
    /\ lockFile' = NewLockData(p)
    /\ last_refresh' = [last_refresh EXCEPT ![p] = 0]
    /\ rret' = [rret EXCEPT ![p] = "true"]
    /\ Goto(p, "ready")
    /\ UNCHANGED <<mutexAvailable, alive, attempt, lock_pid, owns_lock,
                   mutex_handle, ret, obs, fault, oob>>

\* refresh_lock called on its own
RefreshCheck(p) == RefreshCheckL(p) /\ UNCHANGED mainVars

RefreshWrite(p) == RefreshWriteL(p) /\ UNCHANGED mainVars

\* ------------------------------------------------------------- remove_lock
\* ReleaseMutex and CloseHandle, if a handle is held
RemoveMutexL(p) ==
    /\ At(p, "ready")
    /\ mutex_handle' = [mutex_handle EXCEPT ![p] = FALSE]
    /\ Goto(p, "remove_file")
    /\ UNCHANGED <<lockFile, mutexAvailable, alive, attempt, lock_pid, owns_lock,
                   last_refresh, ret, rret, obs, fault, oob>>

\* if self.owns_lock and self.lock_path.exists(): unlink
RemoveFileLKeepsFlag(p) ==
    /\ At(p, "remove_file")
    /\ IF owns_lock[p] /\ Exists(lockFile)
         THEN lockFile' = Absent
         ELSE UNCHANGED lockFile
    /\ Goto(p, "ready")
    /\ UNCHANGED <<mutexAvailable, alive, attempt, lock_pid, mutex_handle, owns_lock,
                   last_refresh, ret, rret, obs, fault, oob>>
RemoveFileL(p) ==
    /\ At(p, "remove_file")
    /\ IF owns_lock[p] /\ Exists(lockFile)
         THEN /\ lockFile' = Absent
              /\ owns_lock' = [owns_lock EXCEPT ![p] = FALSE]
              /\ last_refresh' = [last_refresh EXCEPT ![p] = -1]
         ELSE UNCHANGED <<lockFile, owns_lock, last_refresh>>
    /\ Goto(p, "ready")
    /\ UNCHANGED <<mutexAvailable, alive, attempt, lock_pid, mutex_handle,
                   ret, rret, obs, fault, oob>>

\* remove_lock called on its own
RemoveMutex(p) == RemoveMutexL(p) /\ UNCHANGED mainVars

RemoveFile(p) == RemoveFileL(p) /\ UNCHANGED mainVars

\* ------------------------------------------------------------ environment
\* The process ends without cleanup (a crash, a kill, or main returning 1
\* after a rejection): its memory goes and the system closes its handles.
ProcessEndL(p) ==
    /\ alive[p]
    /\ alive' = [alive EXCEPT ![p] = FALSE]
    /\ pc' = [pc EXCEPT ![p] = "dead"]
    /\ mutex_handle' = [mutex_handle EXCEPT ![p] = FALSE]
    /\ owns_lock' = [owns_lock EXCEPT ![p] = FALSE]
    /\ attempt' = [attempt EXCEPT ![p] = 0]
    /\ lock_pid' = [lock_pid EXCEPT ![p] = 0]
    /\ last_refresh' = [last_refresh EXCEPT ![p] = -1]
    /\ UNCHANGED <<lockFile, mutexAvailable, ret, rret, obs, fault, oob>>

Crash(p) == ProcessEndL(p) /\ UNCHANGED mainVars

\* d seconds pass: every timestamp written before is d seconds older.
TimePassesL(d) ==
    /\ lockFile' = Aged(lockFile, d)
    /\ last_refresh' = [p \in Procs |->
                          IF last_refresh[p] < 0 THEN -1
                          ELSE Min(last_refresh[p] + d, LOCK_TTL_SECONDS)]
    /\ UNCHANGED <<mutexAvailable, alive, pc, attempt, lock_pid, owns_lock,
                   mutex_handle, ret, rret, obs, fault, oob>>

\* Half a TTL passes.
Tick ==
    /\ TimePassesL(HalfTTL)
    /\ <<lockFile', last_refresh'>> # <<lockFile, last_refresh>>
    /\ UNCHANGED mainVars

\* Somebody else deletes the lock file.
OOBDelete ==
    /\ oob < MaxOOB
    /\ Exists(lockFile)
    /\ lockFile' = Absent
    /\ oob' = oob + 1
    /\ UNCHANGED <<mutexAvailable, alive, pc, attempt, lock_pid, owns_lock,
                   mutex_handle, last_refresh, ret, rret, obs, fault>>
    /\ UNCHANGED mainVars

\* Somebody else leaves garbage under the lock file's name.
OOBCorrupt ==
    /\ oob < MaxOOB
    /\ lockFile # Corrupt
    /\ lockFile' = Corrupt
    /\ oob' = oob + 1
    /\ UNCHANGED <<mutexAvailable, alive, pc, attempt, lock_pid, owns_lock,
                   mutex_handle, last_refresh, ret, rret, obs, fault>>
    /\ UNCHANGED mainVars

\* PASO 2 of check_and_acquire, step by step
FileSteps(p) ==
    \/ ExistsCheck(p)
    \/ ReadLock(p)
    \/ CheckOwner(p)
    \/ RemoveOrphan(p)
    \/ UnlinkCorrupt(p)
    \/ CreateLock(p)
    \/ VerifyLock(p)

\* ------------------------------------------------------------------- main
\* The instance whose main() is followed.
Sup == 1

\* chunk of interruptible_sleep
chunk == 10
lock_refresh_interval_seconds == 10
\* wait_time of the error handler once errores_recientes >= 3
wait_time == 300
error_threshold == 3
\* time.sleep(30) of start_app and of kill_app
grace_seconds == 30

\* The hours at which a cycle may find the clock.
Hours == {6, 9}
\* Runs of erroring cycles are followed up to this length.
MaxErrores == 3

WorkerFiles == {NoArtifact, BadArtifact, Artifact(timeout_minutes),
                Artifact(timeout_minutes + 1)}

\* AppWatchdog.check_app_status
CheckAppStatus(w) == check_app_status(ContentOf(w), timeout_minutes)

\* d seconds pass while main sleeps.
TimePasses(d) ==
    /\ TimePassesL(d)
    /\ since_lock_refresh' = Min(since_lock_refresh + d, lock_refresh_interval_seconds)

\* the loop is left by break: main returns 0 and the exit handlers run
Break ==
    /\ mpc' = "atexit_crash"
    /\ exit_code' = 0

\* stop.txt removed and the loop going on
StopSeenNoBreak ==
    /\ stopFile' = "absent"
    /\ mpc' = "loop_top"
    /\ UNCHANGED exit_code

\* os.path.exists(stop_file) is true: os.remove(stop_file), break
StopSeen ==
    /\ stopFile' = "absent"
    /\ Break

\* interruptible_sleep(seconds) is called at site
StartSleep(site, seconds) ==
    /\ mpc' = "sleep"
    /\ sleep_site' = site
    /\ sleep_left' = seconds

\* where main goes on when interruptible_sleep returned False
AfterSleep(site) ==
    CASE site = "after_start" -> "cycle_sleep"
      [] site = "after_kill" -> "start_launch"
      [] OTHER -> "loop_top"

\* What a stop.txt that can be read may hold: the word in three spellings,
\* another text, nothing.
StopContents == {"FROZEN", "frozen", " Frozen ", "other", ""}

\* content.strip().upper()
strip_upper(content) ==
    CASE content \in {"FROZEN", "frozen", " Frozen "} -> "FROZEN"
      [] content = "other" -> "OTHER"
      [] OTHER -> ""

\* check_startup_stop_file comparing the content as it is, and main's return 1
MainStartupExactWord ==
    /\ mpc = "start" /\ alive[Sup]
    /\ IF stopFile \in StopContents /\ stopFile = "FROZEN"
         THEN /\ ProcessEndL(Sup)
              /\ mpc' = "exited"
              /\ exit_code' = 1
              /\ UNCHANGED stopFile
         ELSE /\ stopFile' = IF stopFile \in StopContents THEN "absent" ELSE stopFile
              /\ mpc' = "acquire"
              /\ UNCHANGED <<lockVars, exit_code>>
    /\ UNCHANGED <<worker, since_lock_refresh, errores_recientes, estado,
                   sleep_left, sleep_site, current_hour, remove_calls>>
    /\ UNCHANGED statusVars
    /\ UNCHANGED recordVars
    /\ UNCHANGED appeared

\* check_startup_stop_file, and main's return 1 when it says stop: no file or a
\* file that cannot be read lets main go on, FROZEN stops it with the file kept,
\* any other content is removed
MainStartup ==
    /\ mpc = "start" /\ alive[Sup]
    /\ IF stopFile \in StopContents /\ strip_upper(stopFile) = "FROZEN"
         THEN /\ ProcessEndL(Sup)
              /\ mpc' = "exited"
              /\ exit_code' = 1
              /\ UNCHANGED stopFile
         ELSE /\ stopFile' = IF stopFile \in StopContents THEN "absent" ELSE stopFile
              /\ mpc' = "acquire"
              /\ UNCHANGED <<lockVars, exit_code>>
    /\ UNCHANGED <<worker, since_lock_refresh, errores_recientes, estado,
                   sleep_left, sleep_site, current_hour, remove_calls>>
    /\ UNCHANGED statusVars
    /\ UNCHANGED recordVars
    /\ UNCHANGED appeared

\* lock_manager.check_and_acquire() running in main
MainAcquire ==
    /\ mpc = "acquire"
    /\ \/ CreateMutex(Sup)
       \/ MutexLost(Sup)
       \/ FileSteps(Sup)

\* main entering the loop whatever check_and_acquire returned
MainAcquiredAnyway ==
    /\ mpc = "acquire" /\ At(Sup, "ready")
    /\ mpc' = "loop_top"
    /\ since_lock_refresh' = 0
    /\ UNCHANGED <<lockVars, exit_code>>
    /\ UNCHANGED <<stopFile, worker, errores_recientes, estado,
                   sleep_left, sleep_site, current_hour, remove_calls>>
    /\ UNCHANGED statusVars
    /\ UNCHANGED recordVars
    /\ UNCHANGED appeared

\* if not lock_manager.check_and_acquire(): return 1; else the handlers are
\* registered and the loop begins
MainAcquired ==
    /\ mpc = "acquire" /\ At(Sup, "ready")
    /\ IF ret[Sup] = "true"
         THEN /\ mpc' = "loop_top"
              /\ since_lock_refresh' = 0
              /\ UNCHANGED <<lockVars, exit_code>>
         ELSE /\ ProcessEndL(Sup)
              /\ mpc' = "exited"
              /\ exit_code' = 1
              /\ UNCHANGED since_lock_refresh
    /\ UNCHANGED <<stopFile, worker, errores_recientes, estado,
                   sleep_left, sleep_site, current_hour, remove_calls>>
    /\ UNCHANGED statusVars
    /\ UNCHANGED recordVars
    /\ UNCHANGED appeared

\* top of a cycle: refresh_lock if the interval has passed
LoopTop ==
    /\ mpc = "loop_top"
    /\ IF since_lock_refresh >= lock_refresh_interval_seconds
         THEN /\ RefreshCheckL(Sup)
              /\ IF owns_lock[Sup] /\ Exists(lockFile)
                   THEN mpc' = "refreshing" /\ UNCHANGED since_lock_refresh
                   ELSE mpc' = "stop_check" /\ since_lock_refresh' = 0
         ELSE /\ mpc' = "stop_check"
              /\ UNCHANGED <<lockVars, since_lock_refresh>>
    /\ UNCHANGED <<stopFile, worker, errores_recientes, estado,
                   sleep_left, sleep_site, current_hour, exit_code, remove_calls>>
    /\ UNCHANGED statusVars
    /\ UNCHANGED recordVars
    /\ UNCHANGED appeared

\* refresh_lock writes; last_lock_refresh = now
LoopRefreshWrite ==
    /\ mpc = "refreshing"
    /\ RefreshWriteL(Sup)
    /\ mpc' = "stop_check"
    /\ since_lock_refresh' = 0
    /\ UNCHANGED <<stopFile, worker, errores_recientes, estado,
                   sleep_left, sleep_site, current_hour, exit_code, remove_calls>>
    /\ UNCHANGED statusVars
    /\ UNCHANGED recordVars
    /\ UNCHANGED appeared

\* the stop check at the top of a cycle, and the status checked at any hour
StopCheckAnyHour ==
    /\ mpc = "stop_check"
    /\ IF stopFile # "absent"
         THEN StopSeen /\ UNCHANGED current_hour
         ELSE /\ \E h \in Hours :
                   /\ current_hour' = h
                   /\ mpc' = "check_status"
              /\ UNCHANGED <<stopFile, exit_code>>
    /\ UNCHANGED <<lockVars, worker, since_lock_refresh, errores_recientes, estado,
                   sleep_left, sleep_site, remove_calls>>
    /\ UNCHANGED statusVars
    /\ UNCHANGED recordVars
    /\ UNCHANGED appeared

\* the stop check at the top of a cycle, then the schedule
StopCheck ==
    /\ mpc = "stop_check"
    /\ IF stopFile # "absent"
         THEN StopSeen /\ UNCHANGED current_hour
         ELSE /\ \E h \in Hours :
                   /\ current_hour' = h
                   /\ mpc' = IF InSchedule(h) THEN "check_status" ELSE "cycle_sleep"
              /\ UNCHANGED <<stopFile, exit_code>>
    /\ UNCHANGED <<lockVars, worker, since_lock_refresh, errores_recientes, estado,
                   sleep_left, sleep_site, remove_calls>>
    /\ UNCHANGED statusVars
    /\ UNCHANGED recordVars
    /\ UNCHANGED appeared

\* estado = app_watchdog.check_app_status() and the branch on it
CheckStatus ==
    /\ mpc = "check_status"
    /\ estado' = CheckAppStatus(worker)
    /\ mpc' = CASE estado' = "not_running" -> "start_launch"
                [] estado' = "hung" -> "kill_send"
                [] OTHER -> "cycle_sleep"
    /\ errores_recientes' = IF estado' = "running_ok" THEN 0 ELSE errores_recientes
    /\ UNCHANGED <<lockVars, stopFile, worker, since_lock_refresh,
                   sleep_left, sleep_site, current_hour, exit_code, remove_calls>>
    /\ UNCHANGED statusVars
    /\ UNCHANGED recordVars
    /\ UNCHANGED appeared

\* errores_recientes += 1
CountError ==
    /\ errores_recientes < MaxErrores
    /\ errores_recientes' = errores_recientes + 1

\* start_app: subprocess.Popen; an error of the launch makes it return False
StartLaunch ==
    /\ mpc = "start_launch"
    /\ \/ mpc' = "start_wait" /\ UNCHANGED errores_recientes
       \/ mpc' = "cycle_sleep" /\ CountError
    /\ UNCHANGED <<lockVars, stopFile, worker, since_lock_refresh, estado,
                   sleep_left, sleep_site, current_hour, exit_code, remove_calls>>
    /\ UNCHANGED statusVars
    /\ UNCHANGED recordVars
    /\ appeared' = FALSE

\* start_app: time.sleep(30)
StartWait ==
    /\ mpc = "start_wait"
    /\ TimePasses(grace_seconds)
    /\ mpc' = "start_verify"
    /\ UNCHANGED <<stopFile, worker, errores_recientes, estado,
                   sleep_left, sleep_site, current_hour, exit_code, remove_calls>>
    /\ UNCHANGED statusVars
    /\ UNCHANGED recordVars
    /\ UNCHANGED appeared

\* start_app: self.lock_file.exists() decides its result; main waits
\* wait_after_action after True and counts an error after False
StartVerify ==
    /\ mpc = "start_verify"
    /\ IF worker.st # "absent"
         THEN /\ StartSleep("after_start", wait_after_action)
              /\ UNCHANGED errores_recientes
         ELSE /\ mpc' = "cycle_sleep"
              /\ CountError
              /\ UNCHANGED <<sleep_left, sleep_site>>
    /\ UNCHANGED <<lockVars, stopFile, worker, since_lock_refresh, estado,
                   current_hour, exit_code, remove_calls>>
    /\ UNCHANGED statusVars
    /\ UNCHANGED recordVars
    /\ appeared' = FALSE

\* kill_app: _read_lock_file, taskkill by pid and by name
KillSend ==
    /\ mpc = "kill_send"
    /\ mpc' = "kill_wait"
    /\ UNCHANGED <<lockVars, stopFile, worker, since_lock_refresh, errores_recientes,
                   estado, sleep_left, sleep_site, current_hour, exit_code,
                   remove_calls>>
    /\ UNCHANGED statusVars
    /\ UNCHANGED recordVars
    /\ UNCHANGED appeared

\* kill_app: time.sleep(30)
KillWait ==
    /\ mpc = "kill_wait"
    /\ TimePasses(grace_seconds)
    /\ mpc' = "kill_verify"
    /\ UNCHANGED <<stopFile, worker, errores_recientes, estado,
                   sleep_left, sleep_site, current_hour, exit_code, remove_calls>>
    /\ UNCHANGED statusVars
    /\ UNCHANGED recordVars
    /\ UNCHANGED appeared

\* kill_app returning False whether or not the artifact is gone
KillVerifyFailsAnytime ==
    /\ mpc = "kill_verify"
    /\ \/ /\ StartSleep("after_kill", 10)
          /\ UNCHANGED errores_recientes
       \/ /\ mpc' = "cycle_sleep"
          /\ CountError
          /\ UNCHANGED <<sleep_left, sleep_site>>
    /\ UNCHANGED <<lockVars, stopFile, worker, since_lock_refresh, estado,
                   current_hour, exit_code, remove_calls>>
    /\ UNCHANGED statusVars
    /\ UNCHANGED recordVars
    /\ UNCHANGED appeared

\* main going on to start_app after kill_app returned False
KillVerifyRestartsAnyway ==
    /\ mpc = "kill_verify"
    /\ \/ /\ StartSleep("after_kill", 10)
          /\ UNCHANGED errores_recientes
       \/ /\ worker.st # "absent"
          /\ mpc' = "start_launch"
          /\ CountError
          /\ UNCHANGED <<sleep_left, sleep_site>>
    /\ UNCHANGED <<lockVars, stopFile, worker, since_lock_refresh, estado,
                   current_hour, exit_code, remove_calls>>
    /\ UNCHANGED statusVars
    /\ UNCHANGED recordVars
    /\ UNCHANGED appeared

\* kill_app: if the artifact still exists, taskkill /F; False only if that
\* raises.  main waits 10 seconds after True and counts an error after False
KillVerify ==
    /\ mpc = "kill_verify"
    /\ \/ /\ StartSleep("after_kill", 10)
          /\ UNCHANGED errores_recientes
       \/ /\ worker.st # "absent"
          /\ mpc' = "cycle_sleep"
          /\ CountError
          /\ UNCHANGED <<sleep_left, sleep_site>>
    /\ UNCHANGED <<lockVars, stopFile, worker, since_lock_refresh, estado,
                   current_hour, exit_code, remove_calls>>
    /\ UNCHANGED statusVars
    /\ UNCHANGED recordVars
    /\ UNCHANGED appeared

\* interruptible_sleep(CONFIG["check_interval"]) at the end of a cycle
CycleSleep ==
    /\ mpc = "cycle_sleep"
    /\ StartSleep("cycle", check_interval)
    /\ UNCHANGED <<lockVars, stopFile, worker, since_lock_refresh, errores_recientes,
                   estado, current_hour, exit_code, remove_calls>>
    /\ UNCHANGED statusVars
    /\ UNCHANGED recordVars
    /\ UNCHANGED appeared

\* one turn of the loop of interruptible_sleep, and what main does with its
\* result: False when the time is up, True (then break) when stop.txt exists,
\* else time.sleep(min(chunk, seconds - elapsed))
SleepPoll ==
    /\ mpc = "sleep"
    /\ IF sleep_left = 0
         THEN /\ mpc' = AfterSleep(sleep_site)
              /\ UNCHANGED <<lockVars, stopFile, since_lock_refresh, sleep_left,
                             exit_code>>
         ELSE IF stopFile # "absent"
                THEN /\ StopSeen
                     /\ UNCHANGED <<lockVars, since_lock_refresh, sleep_left>>
                ELSE /\ TimePasses(Min(chunk, sleep_left))
                     /\ sleep_left' = sleep_left - Min(chunk, sleep_left)
                     /\ UNCHANGED <<mpc, stopFile, exit_code>>
    /\ UNCHANGED <<worker, errores_recientes, estado, sleep_site, current_hour,
                   remove_calls>>
    /\ UNCHANGED statusVars
    /\ UNCHANGED recordVars
    /\ UNCHANGED appeared

\* Where a cycle can raise OSError or another Exception to the handlers of the
\* loop: in main's own statements.  start_app and kill_app catch their own,
\* interruptible_sleep has no statement that raises them.
InTry == mpc \in {"loop_top", "stop_check", "check_status", "cycle_sleep"}

\* Ctrl-C can arrive anywhere; inside the try it reaches except
\* KeyboardInterrupt,
InTryOrCall ==
    \/ InTry
    \/ mpc \in {"start_launch", "start_wait", "start_verify",
                 "kill_send", "kill_wait", "kill_verify"}
    \/ mpc = "sleep" /\ sleep_site # "error"

\* in the sleeps of except Exception nothing catches it.
InHandler == mpc = "sleep" /\ sleep_site = "error"

\* except KeyboardInterrupt: break.  Uncaught, it ends main with a traceback
\* and a nonzero status; the exit handlers run in both cases.
RaiseKeyboardInterrupt ==
    /\ \/ InTryOrCall /\ Break
       \/ InHandler /\ mpc' = "atexit_crash" /\ exit_code' = 1
    /\ UNCHANGED <<lockVars, stopFile, worker, since_lock_refresh, errores_recientes,
                   estado, sleep_left, sleep_site, current_hour, remove_calls>>
    /\ UNCHANGED statusVars
    /\ UNCHANGED recordVars
    /\ UNCHANGED appeared

\* except OSError: winerror 233 resets the counter, any other counts; the
\* next cycle follows
RaiseOSError ==
    /\ InTry
    /\ \/ errores_recientes' = 0
       \/ CountError
    /\ mpc' = "loop_top"
    /\ UNCHANGED <<lockVars, stopFile, worker, since_lock_refresh,
                   estado, sleep_left, sleep_site, current_hour, exit_code,
                   remove_calls>>
    /\ UNCHANGED statusVars
    /\ UNCHANGED recordVars
    /\ UNCHANGED appeared

\* except Exception: count, then wait wait_time or check_interval
RaiseException ==
    /\ InTry
    /\ CountError
    /\ StartSleep("error", IF errores_recientes' >= error_threshold
                             THEN wait_time ELSE check_interval)
    /\ UNCHANGED <<lockVars, stopFile, worker, since_lock_refresh,
                   estado, current_hour, exit_code, remove_calls>>
    /\ UNCHANGED statusVars
    /\ UNCHANGED recordVars
    /\ UNCHANGED appeared

\* An exception of the cycle reaches except OSError or except Exception and
\* the handler itself raises (its logger calls print, and open a new day's
\* file, outside any try): the exception leaves main, __main__ sets exit_code =
\* 1 and the exit handlers run.
RaiseInHandler ==
    /\ InTry
    /\ \/ UNCHANGED errores_recientes
       \/ CountError
    /\ mpc' = "atexit_crash"
    /\ exit_code' = 1
    /\ UNCHANGED <<lockVars, stopFile, worker, since_lock_refresh,
                   estado, sleep_left, sleep_site, current_hour, remove_calls>>
    /\ UNCHANGED statusVars
    /\ UNCHANGED recordVars
    /\ UNCHANGED appeared

\* The exit handlers, last registered first: handle_crash, whose first
\* statement that changes state is remove_lock, then the lambda calling
\* remove_lock.
AtExitCrashMutex ==
    /\ mpc = "atexit_crash"
    /\ RemoveMutexL(Sup)
    /\ mpc' = "atexit_crash_file"
    /\ UNCHANGED <<stopFile, worker, since_lock_refresh, errores_recientes, estado,
                   sleep_left, sleep_site, current_hour, exit_code, remove_calls>>
    /\ UNCHANGED statusVars
    /\ UNCHANGED recordVars
    /\ UNCHANGED appeared

AtExitCrashFile ==
    /\ mpc = "atexit_crash_file"
    /\ RemoveFileL(Sup)
    /\ mpc' = "atexit_remove"
    /\ remove_calls' = remove_calls + 1
    /\ UNCHANGED <<stopFile, worker, since_lock_refresh, errores_recientes, estado,
                   sleep_left, sleep_site, current_hour, exit_code>>
    /\ UNCHANGED statusVars
    /\ UNCHANGED recordVars
    /\ UNCHANGED appeared

AtExitRemoveMutex ==
    /\ mpc = "atexit_remove"
    /\ RemoveMutexL(Sup)
    /\ mpc' = "atexit_remove_file"
    /\ UNCHANGED <<stopFile, worker, since_lock_refresh, errores_recientes, estado,
                   sleep_left, sleep_site, current_hour, exit_code, remove_calls>>
    /\ UNCHANGED statusVars
    /\ UNCHANGED recordVars
    /\ UNCHANGED appeared

AtExitRemoveFile ==
    /\ mpc = "atexit_remove_file"
    /\ RemoveFileL(Sup)
    /\ mpc' = "atexit_done"
    /\ remove_calls' = remove_calls + 1
    /\ UNCHANGED <<stopFile, worker, since_lock_refresh, errores_recientes, estado,
                   sleep_left, sleep_site, current_hour, exit_code>>
    /\ UNCHANGED statusVars
    /\ UNCHANGED recordVars
    /\ UNCHANGED appeared

\* the interpreter ends
MainExit ==
    /\ mpc = "atexit_done"
    /\ ProcessEndL(Sup)
    /\ mpc' = "exited"
    /\ UNCHANGED <<stopFile, worker, since_lock_refresh, errores_recientes, estado,
                   sleep_left, sleep_site, current_hour, exit_code, remove_calls>>
    /\ UNCHANGED statusVars
    /\ UNCHANGED recordVars
    /\ UNCHANGED appeared

\* The operator leaves a stop.txt.
StopEnv ==
    /\ mpc # "exited"
    /\ stopFile = "absent"
    /\ stopFile' \in {"FROZEN", "other"}
    /\ UNCHANGED <<lockVars, mpc, worker, since_lock_refresh, errores_recientes,
                   estado, sleep_left, sleep_site, current_hour, exit_code,
                   remove_calls>>
    /\ UNCHANGED statusVars
    /\ UNCHANGED recordVars
    /\ UNCHANGED appeared

\* The worker (or its end) changes smart_dbf.lock.  main reads the artifact at
\* three places only, so the changes are taken just before those.
WorkerEnv ==
    /\ mpc \in {"check_status", "start_verify", "kill_verify"}
    /\ worker' \in WorkerFiles \ {worker}
    /\ UNCHANGED <<lockVars, mpc, stopFile, since_lock_refresh, errores_recientes,
                   estado, sleep_left, sleep_site, current_hour, exit_code,
                   remove_calls>>
    /\ UNCHANGED statusVars
    /\ UNCHANGED recordVars
    /\ appeared' = (mpc = "start_verify" /\ worker'.st # "absent")

\* ---------------------------------------------------------- specifications
\* Any sequence of LockManager calls by any instance, crashes, time passing and
\* out-of-band changes of the file.
Next ==
    \/ \E p \in Procs : CreateMutex(p)
    \/ \E p \in Procs : MutexLost(p)
    \/ \E p \in Procs : FileSteps(p)
    \/ \E p \in Procs : RefreshCheck(p)
    \/ \E p \in Procs : RefreshWrite(p)
    \/ \E p \in Procs : RemoveMutex(p)
    \/ \E p \in Procs : RemoveFile(p)
    \/ \E p \in Procs : Crash(p)
    \/ Tick
    \/ OOBDelete
    \/ OOBCorrupt

Spec == Init /\ [][Next]_vars

\* The instances only call check_and_acquire, each once.
NextRace ==
    \/ \E p \in Procs : CreateMutex(p)
    \/ \E p \in Procs : MutexLost(p)
    \/ \E p \in Procs : FileSteps(p)
    \/ Tick
    \/ OOBDelete
    \/ OOBCorrupt

SpecRace == Init /\ [][NextRace]_vars

\* As SpecRace, with check_and_acquire starting at its file-based steps.
NextFileOnly ==
    \/ \E p \in Procs : SkipMutex(p)
    \/ \E p \in Procs : FileSteps(p)
    \/ Tick

SpecFileOnly == Init /\ [][NextFileOnly]_vars

\* main() of one supervisor, with an operator who leaves stop.txt and a worker
\* that changes its artifact.
InitMain ==
    /\ InitLock
    /\ lockFile \in {Absent, Record(OldPid, 0, "watchdog")}
    /\ mpc = "start"
    /\ stopFile \in {"absent", "unreadable"} \cup StopContents
    /\ worker \in WorkerFiles
    /\ since_lock_refresh = 0
    /\ errores_recientes = 0
    /\ estado = "none"
    /\ sleep_left = 0
    /\ sleep_site = "none"
    /\ current_hour = 0
    /\ exit_code = -1
    /\ remove_calls = 0
    /\ appeared = FALSE
    /\ InitStatusIdle
    /\ InitRecordIdle

NextMain ==
    \/ MainStartup
    \/ MainAcquire
    \/ MainAcquired
    \/ LoopTop
    \/ LoopRefreshWrite
    \/ StopCheck
    \/ CheckStatus
    \/ StartLaunch
    \/ StartWait
    \/ StartVerify
    \/ KillSend
    \/ KillWait
    \/ KillVerify
    \/ CycleSleep
    \/ SleepPoll
    \/ RaiseKeyboardInterrupt
    \/ RaiseOSError
    \/ RaiseException
    \/ RaiseInHandler
    \/ AtExitCrashMutex
    \/ AtExitCrashFile
    \/ AtExitRemoveMutex
    \/ AtExitRemoveFile
    \/ MainExit
    \/ StopEnv
    \/ WorkerEnv

SpecMain == InitMain /\ [][NextMain]_vars

\* ------------------------------------------------------------------ claims
Acquired == {p \in Procs : ret[p] = "true"}
AllReturned == \A p \in Procs : ret[p] # "none"
NoInterference == ~fault /\ oob = 0

C3_FileStepsExclude == Cardinality(Acquired) <= 1

\* C4 as stated: a call that found a record whose owner is not alive returns
\* True, whatever the record's age.
C4_DeadOwnerIsAbsent ==
    \A p \in Procs :
       (ret[p] # "none" /\ obs[p].st = "ok" /\ ~obs[p].ownerAlive /\ NoInterference)
         => ret[p] = "true"

\* C4 as amended: a record whose owner is not alive is treated as absent only
\* when its age has reached the TTL; while it is younger the call returns False.
C4_DeadOwnerAbsentOnceStale ==
    \A p \in Procs :
       (ret[p] # "none" /\ obs[p].st = "ok" /\ ~obs[p].ownerAlive)
         => IF obs[p].fresh THEN ret[p] = "false"
            ELSE (NoInterference => ret[p] = "true")

C4_Witness ==
    \E p \in Procs :
       /\ ret[p] = "false" /\ obs[p].st = "ok" /\ obs[p].fresh /\ ~obs[p].ownerAlive
       /\ NoInterference /\ mutex_handle[p]

\* C5: a call that found a record at least TTL old whose owner is not running
\* returns True, and the file then holds the caller's record alone: its pid,
\* the timestamp of the creation, type watchdog.
C5_OrphanReclaimed ==
    [][\A p \in Procs :
         (/\ ret[p] = "none" /\ ret'[p] # "none"
          /\ obs[p].st = "ok" /\ ~obs[p].fresh /\ ~obs[p].ownerAlive
          /\ ~fault' /\ oob' = 0)
           => /\ ret'[p] = "true"
              /\ owns_lock'[p]
              /\ lockFile' = Record(p, last_refresh'[p], "watchdog")]_vars

C5_Witness ==
    \E p \in Procs :
       /\ ret[p] = "true" /\ obs[p].st = "ok" /\ ~obs[p].fresh /\ ~obs[p].ownerAlive
       /\ lockFile.st = "ok" /\ lockFile.pid = p
       /\ NoInterference

C7_FreshRejected ==
    [][\A p \in Procs :
         (/\ At(p, "read") /\ alive'[p] /\ pc'[p] # "read"
          /\ lockFile.st = "ok" /\ lockFile.age < LOCK_TTL_SECONDS)
           => /\ pc'[p] = "ready" /\ ret'[p] = "false"
              /\ lockFile' = lockFile]_vars

C7_Witness ==
    \E p \in Procs :
       /\ ret[p] = "false" /\ pc[p] = "ready"
       /\ obs[p].st = "ok" /\ obs[p].fresh /\ obs[p].ownerAlive
       /\ lockFile.st = "ok" /\ lockFile.pid # p /\ lockFile.age < LOCK_TTL_SECONDS

\* The instance holds the lock: acquired, not yet in remove_lock.
Owner(o) ==
    /\ alive[o] /\ ret[o] = "true" /\ owns_lock[o]
    /\ pc[o] \in {"ready", "refresh_write"}

\* C8: while the owner's last refresh is less than a TTL ago (and nobody
\* changed the file from outside), the file holds the owner's record with an age
\* below the TTL, and no other instance's check_and_acquire returns True.
C8_RefreshKeepsOwnership ==
    /\ [](\A o \in Procs :
            (Owner(o) /\ oob = 0 /\ last_refresh[o] < LOCK_TTL_SECONDS)
              => lockFile = Record(o, last_refresh[o], "watchdog"))
    /\ [][\A o, q \in Procs :
            (o # q /\ Owner(o) /\ oob = 0 /\ last_refresh[o] < LOCK_TTL_SECONDS)
              => ~(ret[q] = "none" /\ ret'[q] = "true")]_vars

\* The owner refreshed, time passed, and another instance was rejected.
C8_Witness ==
    \E o, q \in Procs :
       /\ o # q /\ Owner(o) /\ rret[o] = "true" /\ oob = 0
       /\ last_refresh[o] > 0 /\ last_refresh[o] < LOCK_TTL_SECONDS
       /\ ret[q] = "false" /\ obs[q].st = "ok" /\ obs[q].fresh

\* main is inside its loop, in a cycle or in one of its waits.
InLoop ==
    mpc \in {"loop_top", "refreshing", "stop_check", "check_status", "start_launch",
             "start_wait", "start_verify", "kill_send", "kill_wait", "kill_verify",
             "cycle_sleep", "sleep"}

\* C9: while the supervisor owns the lock and runs its loop (SpecMain), in
\* every state, across every wait of the loop, its lock file holds its record
\* with a timestamp younger than the TTL.
C9_LockStaysFresh ==
    (InLoop /\ alive[Sup] /\ owns_lock[Sup] /\ oob = 0)
      => /\ lockFile.st = "ok" /\ lockFile.pid = Sup
         /\ lockFile.age < LOCK_TTL_SECONDS

\* C10: remove_lock never deletes a file whose record names another process.
C10_RemoveOnlyOwnFile ==
    [][\A p \in Procs :
         (At(p, "remove_file") /\ pc'[p] = "ready" /\ lockFile' # lockFile)
           => ~(lockFile.st = "ok" /\ lockFile.pid # p)]_vars

\* C11: when the supervisor process that acquired the lock has ended through
\* main's exit paths (stop.txt, Ctrl-C), remove_lock has run exactly once.
C11_ReleaseRunsOnce ==
    (mpc = "exited" /\ ret[Sup] = "true") => remove_calls = 1

\* -------------------------------------------- AppWatchdog, called on its own
\* The timeouts an AppWatchdog is built with: the test's and CONFIG's.
Timeouts == {30, timeout_minutes}
\* Ages of the timestamp, in seconds: in the future, 5 minutes, around 30
\* minutes, 35 minutes, around 70 minutes.
AgeSeconds == {-60, 300, 1799, 1800, 1801, 2100, 4200, 4201}
Jsons == {"invalid", "nondict", "empty", "object"}
Stamps == {"missing", "empty", "malformed", "number", "ok"}

Contents ==
    {Content(e, r, j, t, a) :
       e \in BOOLEAN, r \in BOOLEAN, j \in Jsons, t \in Stamps, a \in AgeSeconds}

InitStatus ==
    /\ InitLock
    /\ InitMainIdle
    /\ artifact \in Contents
    /\ timeout \in Timeouts
    /\ data = NotCalled
    /\ lock_age = NoAge
    /\ status = "not called"
    /\ InitRecordIdle

\* wd._read_lock_file()
CallReadLockFile ==
    /\ data = NotCalled
    /\ data' = read_lock_file(artifact)
    /\ UNCHANGED <<lockVars, mpc, stopFile, worker, since_lock_refresh,
                   errores_recientes, estado, sleep_left, sleep_site, current_hour,
                   exit_code, remove_calls, appeared, artifact, timeout, lock_age,
                   status>>
    /\ UNCHANGED recordVars

\* wd._get_lock_age_minutes() and wd.check_app_status()
CallCheckAppStatus ==
    /\ status = "not called"
    /\ lock_age' = get_lock_age_minutes(artifact)
    /\ status' = check_app_status(artifact, timeout)
    /\ UNCHANGED <<lockVars, mpc, stopFile, worker, since_lock_refresh,
                   errores_recientes, estado, sleep_left, sleep_site, current_hour,
                   exit_code, remove_calls, appeared, artifact, timeout, data>>
    /\ UNCHANGED recordVars

NextStatus ==
    \/ CallReadLockFile
    \/ CallCheckAppStatus

SpecStatus == InitStatus /\ [][NextStatus]_vars

\* The artifact opens, is a JSON object and its timestamp is in lock_time_format.
Parses(c) == c.readable /\ c.json = "object" /\ c.ts = "ok"

Ageless(c) == c.exists /\ ~Parses(c)

\* C13 as stated: for an artifact that exists and gives no age,
\* check_app_status returns running_ok, _get_lock_age_minutes gives no age and
\* _read_lock_file gives no data.
C13_AgelessIsRunningOk ==
    (Ageless(artifact) /\ status # "not called" /\ data # NotCalled)
      => /\ status = "running_ok"
         /\ ~lock_age.some
         /\ ~Truthy(data)

\* C13 as amended: such an artifact is running_ok and has no age; the read
\* gives no data (None or {}) when the file cannot be opened or is not a
\* non-empty JSON object, and gives the parsed object when only its timestamp
\* is missing, empty or malformed.
C13_AgelessIsRunningOkDataKept ==
    (Ageless(artifact) /\ status # "not called" /\ data # NotCalled)
      => /\ status = "running_ok"
         /\ ~lock_age.some
         /\ ~Truthy(data) <=> (~artifact.readable \/ artifact.json # "object")
         /\ Truthy(data) => data.ts = artifact.ts

\* An object without a usable timestamp was read and classified.
C13_Witness ==
    /\ Ageless(artifact) /\ artifact.readable /\ artifact.json = "object"
    /\ artifact.ts = "malformed" /\ artifact.age > timeout * 60
    /\ status = "running_ok" /\ Truthy(data)

\* start_app is entered, kill_app is entered
StartCalled == mpc # "start_launch" /\ mpc' = "start_launch"
KillCalled == mpc # "kill_send" /\ mpc' = "kill_send"
InKill == mpc \in {"kill_send", "kill_wait", "kill_verify"}

\* C14: in SpecMain the status decides the action of the cycle.  The step that
\* leaves the status check enters start_app for not_running, kill_app for hung
\* and the inter-cycle sleep for running_ok; kill_app is entered from nowhere
\* else; start_app is entered otherwise only when the 10-second wait that
\* follows a kill_app returning True is over; after kill_app returned False the
\* cycle goes to its sleep.
C14_StatusDecidesAction ==
    [][/\ (mpc = "check_status" /\ mpc' \in {"start_launch", "kill_send", "cycle_sleep"})
           => mpc' = CASE estado' = "not_running" -> "start_launch"
                       [] estado' = "hung" -> "kill_send"
                       [] OTHER -> "cycle_sleep"
       /\ KillCalled => (mpc = "check_status" /\ estado' = "hung")
       /\ StartCalled =>
            \/ mpc = "check_status" /\ estado' = "not_running"
            \/ mpc = "sleep" /\ sleep_site = "after_kill" /\ sleep_left = 0
                 /\ estado = "hung"
       /\ (mpc # "sleep" /\ mpc' = "sleep" /\ sleep_site' = "after_kill")
            => (mpc = "kill_verify" /\ estado = "hung")
       /\ (InKill /\ mpc' \notin {"kill_send", "kill_wait", "kill_verify", "sleep"})
            => mpc' \in {"cycle_sleep", "atexit_crash"}]_vars

\* A hung worker was killed and is being restarted.
C14_Witness == mpc = "start_launch" /\ estado = "hung" /\ sleep_site = "after_kill"

\* start_app returns: True takes main to the wait after the start, False to
\* the inter-cycle sleep with an error counted
StartReturnsTrue == mpc = "start_verify" /\ mpc' = "sleep" /\ sleep_site' = "after_start"
StartReturnsFalse == mpc \in {"start_launch", "start_verify"} /\ mpc' = "cycle_sleep"

\* C15: start_app (in SpecMain) returns True exactly when the artifact appeared
\* in the 30 seconds after the launch, whatever the artifact was before; it
\* returns False otherwise, also when the launch fails.
C15_StartVerifiesArtifact ==
    [][/\ StartReturnsTrue => appeared
       /\ (StartReturnsFalse /\ mpc = "start_verify") => ~appeared]_vars

\* kill_app returns: True takes main to the 10-second wait, False to the
\* inter-cycle sleep with an error counted
KillReturnsTrue == mpc = "kill_verify" /\ mpc' = "sleep" /\ sleep_site' = "after_kill"
KillReturnsFalse == mpc = "kill_verify" /\ mpc' = "cycle_sleep"

\* C16 as stated: kill_app (in SpecMain) returns True only with the artifact
\* gone, and False only when the forced pass, run because the artifact was
\* still there, raised.
C16_KillTrueOnlyIfGone ==
    [][/\ KillReturnsTrue => worker'.st = "absent"
       /\ KillReturnsFalse => worker.st # "absent"]_vars

\* C16 as amended: kill_app returns True when the artifact is gone after the
\* 30 seconds, and also when it is still there and the forced pass did not
\* raise (the artifact is not looked at again); it returns False only when the
\* forced pass, run because the artifact was still there, raised.  It does not
\* touch the artifact itself.
C16_KillFalseOnlyIfForcedRaises ==
    [][/\ (KillReturnsTrue \/ KillReturnsFalse) => worker' = worker
       /\ KillReturnsFalse => (worker.st # "absent" /\ errores_recientes' = errores_recientes + 1)
       /\ (mpc = "kill_verify" /\ mpc' \in {"sleep", "cycle_sleep"} /\ worker.st = "absent")
            => KillReturnsTrue]_vars

\* kill_app has just returned True with the artifact still on disk.
C16_Witness ==
    /\ mpc = "sleep" /\ sleep_site = "after_kill" /\ sleep_left = 10
    /\ worker.st # "absent"

\* a cycle ends in an error: the step counts it
ErrorCounted == errores_recientes' = errores_recientes + 1

\* C17: in SpecMain, the step that counts an error and leaves the counter at
\* 3 or more starts the fixed wait of 5 minutes, and that wait is longer than
\* check_interval, the wait used below the threshold.
C17_BackoffAtThreshold ==
    [][(ErrorCounted /\ errores_recientes' >= error_threshold)
         => /\ mpc' = "sleep"
            /\ sleep_left' = 5 * 60
            /\ sleep_left' > check_interval]_vars

\* main leaves its loop
LoopExit == InLoop /\ ~InLoop'

\* C18: the loop of main (SpecMain) is left only by a step that saw stop.txt
\* (and removed it) or by a keyboard interrupt: caught, main returns 0 with
\* nothing else changed; in a sleep of except Exception nothing catches it.
\* No counted error, exception of a cycle or False from start_app/kill_app
\* leaves the loop.
C18_LoopEndsOnlyOnStopOrInterrupt ==
    [][LoopExit =>
         \/ stopFile # "absent" /\ stopFile' = "absent" /\ exit_code' = 0
         \/ stopFile' = stopFile /\ errores_recientes' = errores_recientes
              /\ (exit_code' = 0 \/ InHandler)]_vars

\* The steps of main() other than the stop check at the top of a cycle; at any
\* place of main at most one of them is possible.
MainStep ==
    \/ MainStartup \/ MainAcquire \/ MainAcquired
    \/ LoopTop \/ LoopRefreshWrite \/ CheckStatus
    \/ StartLaunch \/ StartWait \/ StartVerify
    \/ KillSend \/ KillWait \/ KillVerify
    \/ CycleSleep \/ SleepPoll
    \/ AtExitCrashMutex \/ AtExitCrashFile
    \/ AtExitRemoveMutex \/ AtExitRemoveFile
    \/ MainExit

\* main() keeps running: its next step is taken when it stays possible, and
\* the stop check at the top of a cycle is not skipped by an exception in every
\* cycle for ever.  The operator, the worker and the exceptions are under no
\* obligation.
FairMain == WF_vars(MainStep) /\ SF_vars(StopCheck)

\* main() started with no lock file and no stop.txt, the mutex at hand.
InitMainClean ==
    /\ InitMain
    /\ lockFile = Absent
    /\ mutexAvailable
    /\ stopFile = "absent"

SpecMainFair == InitMainClean /\ [][NextMain]_vars /\ FairMain

C20_AcquireGatesLoop ==
    /\ (InLoop \/ estado # "none") => ret[Sup] = "true"
    /\ ret[Sup] = "false" =>
         /\ mpc \in {"acquire", "exited"}
         /\ estado = "none" /\ remove_calls = 0
         /\ mpc = "exited" => (exit_code > 0 /\ ~alive[Sup])

\* Rejected by a fresh lock of another process, main has exited with 1.
C20_Witness ==
    /\ mpc = "exited" /\ ret[Sup] = "false" /\ exit_code = 1
    /\ obs[Sup].fresh /\ lockFile.st = "ok" /\ lockFile.pid # Sup

\* ------------------------------------- a lock record written and read back
\* Seconds of the clock followed.
MaxClock == 2
\* The microseconds of datetime.now(): none, some, the last of a second.
Micros == {0, 500000, 999999}
Pids == 1..3

InitRecord ==
    /\ InitLock
    /\ InitMainIdle
    /\ InitStatusIdle
    /\ now \in {Time(0, u) : u \in Micros}
    /\ getpid \in Pids
    /\ written = NoText
    /\ verify_data = NoData
    /\ lock_time = NoTime
    /\ writer = "none"

\* check_and_acquire: open(self.lock_path, 'x'), json.dump(lock_data, f)
WriteAcquire ==
    /\ ~written.valid
    /\ written' = json_dump(lock_data(getpid, now))
    /\ writer' = "check_and_acquire"
    /\ UNCHANGED <<now, getpid, verify_data, lock_time>>
    /\ UNCHANGED <<lockVars, mpc, stopFile, worker, since_lock_refresh,
                   errores_recientes, estado, sleep_left, sleep_site, current_hour,
                   exit_code, remove_calls, appeared, statusVars>>

\* refresh_lock by the process that owns the lock: open(self.lock_path, 'w'),
\* json.dump(lock_data, f)
WriteRefresh ==
    /\ written.valid
    /\ written' = json_dump(lock_data(getpid, now))
    /\ writer' = "refresh_lock"
    /\ UNCHANGED <<now, getpid, verify_data, lock_time>>
    /\ UNCHANGED <<lockVars, mpc, stopFile, worker, since_lock_refresh,
                   errores_recientes, estado, sleep_left, sleep_site, current_hour,
                   exit_code, remove_calls, appeared, statusVars>>

\* the file read back: json.load, .get('pid'), .get('timestamp'), strptime
ReadBack ==
    /\ written.valid
    /\ verify_data' = json_load(written)
    /\ lock_time' = strptime(verify_data'.timestamp, TIMESTAMP_FORMAT)
    /\ <<verify_data', lock_time'>> # <<verify_data, lock_time>>
    /\ UNCHANGED <<now, getpid, written, writer>>
    /\ UNCHANGED <<lockVars, mpc, stopFile, worker, since_lock_refresh,
                   errores_recientes, estado, sleep_left, sleep_site, current_hour,
                   exit_code, remove_calls, appeared, statusVars>>

\* the clock goes on, by a second or within the second
ClockRuns ==
    /\ \/ /\ now.sec < MaxClock
          /\ \E u \in Micros : now' = Time(now.sec + 1, u)
       \/ \E u \in Micros : u > now.usec /\ now' = Time(now.sec, u)
    /\ UNCHANGED <<getpid, written, verify_data, lock_time, writer>>
    /\ UNCHANGED <<lockVars, mpc, stopFile, worker, since_lock_refresh,
                   errores_recientes, estado, sleep_left, sleep_site, current_hour,
                   exit_code, remove_calls, appeared, statusVars>>

NextRecord ==
    \/ WriteAcquire
    \/ WriteRefresh
    \/ ReadBack
    \/ ClockRuns

SpecRecord == InitRecord /\ [][NextRecord]_vars

C22_MutexOptional ==
    \A p \in Procs :
       (ret[p] # "none" /\ ~mutexAvailable /\ NoInterference
          /\ lockFile.st # "ok" /\ \A q \in Procs \ {p} : ret[q] = "none")
         => (ret[p] = "true" /\ obs[p] # NoObs)

\* The step is one of instance q's own: q moved within or out of a method.
StepOf(q) == pc'[q] # pc[q] /\ alive'[q]

\* The file holds a record younger than the TTL whose owner is alive.
FreshAndLive == lockFile.st = "ok" /\ LockIsFresh(lockFile.age) /\ IsAlive(lockFile.pid)

\* A step wrote or deleted the file (time passing rewrites nothing).
FileWritten == lockFile' # lockFile /\ lockFile' # Aged(lockFile, HalfTTL)

\* C23: while the file holds a fresh record of a live owner, no step of
\* check_and_acquire, refresh_lock or remove_lock of another instance writes
\* or deletes the file (Spec).
C23_OnlyOwnerWrites ==
    [][\A q \in Procs :
         (StepOf(q) /\ FreshAndLive /\ FileWritten) => lockFile.pid = q]_vars

\* C24: the instance that finds the mutex already there returns False in its
\* next step, which neither reads nor writes the lock file, leaves owns_lock
\* False and leaves the instance without a mutex handle (Spec).
C24_MutexLoserTouchesNothing ==
    [][\A p \in Procs :
         (At(p, "mutex_lost") /\ StepOf(p))
           => /\ pc'[p] = "ready" /\ ret'[p] = "false"
              /\ lockFile' = lockFile
              /\ obs'[p] = NoObs /\ attempt'[p] = 0 /\ lock_pid'[p] = 0
              /\ ~owns_lock'[p] /\ last_refresh'[p] = -1
              /\ ~mutex_handle'[p]]_vars

\* The loser has returned while the winner holds the mutex and its lock file.
C24_Witness ==
    \E p, q \in Procs :
       /\ p # q /\ alive[p] /\ pc[p] = "ready" /\ ret[p] = "false" /\ obs[p] = NoObs
       /\ mutexAvailable /\ ~mutex_handle[p] /\ ~owns_lock[p]
       /\ alive[q] /\ mutex_handle[q] /\ ret[q] = "true"
       /\ lockFile = Record(q, 0, "watchdog")

\* C25: a refresh_lock whose instance does not own the lock, or whose lock
\* file is not there, returns False and leaves the file, owns_lock and
\* _last_refresh as they are; it writes only a file that is there, and then
\* the file holds the instance's record with the timestamp of the write and the
\* call returns True (Spec).
C25_RefreshWritesOnlyExistingFile ==
    [][\A p \in Procs :
         /\ (At(p, "ready") /\ alive'[p] /\ rret'[p] # rret[p])
              => /\ ~(owns_lock[p] /\ Exists(lockFile))
                 /\ rret'[p] = "false"
                 /\ lockFile' = lockFile
                 /\ owns_lock' = owns_lock /\ last_refresh' = last_refresh
         /\ (At(p, "ready") /\ pc'[p] = "refresh_write")
              => (owns_lock[p] /\ Exists(lockFile))
         /\ (At(p, "refresh_write") /\ StepOf(p))
              => IF owns_lock[p] /\ Exists(lockFile)
                   THEN /\ lockFile' = Record(p, 0, "watchdog")
                        /\ rret'[p] = "true" /\ owns_lock'[p]
                   ELSE /\ lockFile' = lockFile
                        /\ rret'[p] = "false"]_vars

\* Instance p is the only one that has called check_and_acquire.
Alone(p) == \A q \in Procs \ {p} : pc[q] = "idle"

\* C26: a check_and_acquire that found a lock file it could not read or parse
\* (invalid JSON, no timestamp, a timestamp not in TIMESTAMP_FORMAT), with no
\* other instance and nothing else failing (SpecRace), has deleted it, created
\* its own record and returned True.
C26_CorruptFileReplaced ==
    \A p \in Procs :
       (ret[p] # "none" /\ obs[p].st = "corrupt" /\ Alone(p) /\ NoInterference)
         => /\ ret[p] = "true" /\ owns_lock[p]
            /\ lockFile = Record(p, last_refresh[p], "watchdog")

C26_Witness ==
    \E p \in Procs :
       /\ ret[p] = "true" /\ obs[p].st = "corrupt" /\ Alone(p) /\ NoInterference
       /\ lockFile.st = "ok" /\ lockFile.pid = p /\ attempt[p] = 0

\* C27: the exclusive create that fails with an error other than
\* FileExistsError makes check_and_acquire return False in that very step,
\* whatever the attempt, with no further attempt, the file as it was and
\* owns_lock False (Spec).
C27_CreateErrorRejects ==
    [][\A p \in Procs :
         (At(p, "create") /\ StepOf(p) /\ ~fault /\ fault')
           => /\ pc'[p] = "ready" /\ ret'[p] = "false"
              /\ attempt'[p] = attempt[p]
              /\ ~owns_lock'[p]
              /\ lockFile' = lockFile]_vars

\* The first create of a call failed on a missing file: the call has returned
\* False and no file was made.
C27_Witness ==
    \E p \in Procs :
       /\ pc[p] = "ready" /\ ret[p] = "false" /\ fault /\ oob = 0
       /\ obs[p].st = "absent" /\ attempt[p] = 0
       /\ ~owns_lock[p] /\ ~Exists(lockFile)

\* ------------------------------------------- check_and_acquire under siege
\* wait_ms of check_and_acquire before attempt number a (0 before the first)
wait_ms(a) == IF a > 0 THEN a * 100 ELSE 0

\* Whenever an instance is about to create the file, somebody may have put a
\* file there: garbage, or the old record of a process long gone.
Interfere ==
    /\ ~Exists(lockFile)
    /\ \E p \in Procs : At(p, "create")
    /\ lockFile' \in {Corrupt, Record(OldPid, LOCK_TTL_SECONDS, "watchdog")}
    /\ oob' = IF oob < MaxOOB THEN oob + 1 ELSE oob
    /\ UNCHANGED <<mutexAvailable, alive, pc, attempt, lock_pid, owns_lock,
                   mutex_handle, last_refresh, ret, rret, obs, fault>>
    /\ UNCHANGED mainVars

\* the steps of instance p's check_and_acquire
AcquireStep(p) == CreateMutex(p) \/ MutexLost(p) \/ FileSteps(p)

NextRetry ==
    \/ \E p \in Procs : CreateMutex(p)
    \/ \E p \in Procs : MutexLost(p)
    \/ \E p \in Procs : FileSteps(p)
    \/ Interfere

\* Every statement of check_and_acquire ends (the sleeps are finite, tasklist
\* runs under a timeout), so a call that can take a step takes it.
SpecRetry == Init /\ [][NextRetry]_vars /\ \A p \in Procs : WF_vars(AcquireStep(p))

\* C28: check_and_acquire ends in every run (SpecRetry), also when each of its
\* creates finds a file put there meanwhile: it makes at most max_retries
\* attempts, the wait before an attempt is longer than the wait before the
\* attempt preceding it, and the create that fails on an existing file in the
\* last attempt returns False.
C28_AcquireTerminates ==
    /\ [](\A p \in Procs : attempt[p] \in 0..(max_retries - 1))
    /\ [][\A p \in Procs :
            (At(p, "create") /\ StepOf(p) /\ Exists(lockFile) /\ fault' = fault)
              => IF attempt[p] + 1 < max_retries
                   THEN /\ pc'[p] = "attempt" /\ attempt'[p] = attempt[p] + 1
                        /\ wait_ms(attempt'[p]) > wait_ms(attempt[p])
                        /\ ret'[p] = "none"
                   ELSE pc'[p] = "ready" /\ ret'[p] = "false"]_vars
    /\ \A p \in Procs : (pc[p] \notin {"idle", "ready"}) ~> (ret[p] # "none")

\* Three creates in a row found a file in the way: the call has returned False
\* from its last attempt.
C28_Witness ==
    \E p \in Procs :
       /\ pc[p] = "ready" /\ ret[p] = "false" /\ attempt[p] = max_retries - 1
       /\ ~fault /\ ~obs[p].fresh /\ Exists(lockFile) /\ mutex_handle[p]

\* C29: the step after a successful exclusive create re-reads the file (Spec):
\* it returns True, owns_lock staying True, only if the file then holds a
\* record with the instance's own pid; if the record names another pid, or the
\* file is gone or unreadable, it returns False with owns_lock False.  No call
\* returns True in any other step.
C29_VerifyRejectsForeignRecord ==
    [][\A p \in Procs :
         /\ (At(p, "verify") /\ StepOf(p))
              => /\ pc'[p] = "ready"
                 /\ IF lockFile.st = "ok" /\ lockFile.pid = p
                      THEN ret'[p] = "true" /\ owns_lock'[p]
                      ELSE ret'[p] = "false" /\ ~owns_lock'[p]
         /\ (ret[p] # "true" /\ ret'[p] = "true")
              => (At(p, "verify") /\ lockFile.st = "ok" /\ lockFile.pid = p)]_vars

\* The verification found the record of another, live instance and rejected.
C29_Witness ==
    \E p, q \in Procs :
       /\ p # q /\ pc[p] = "ready" /\ ret[p] = "false" /\ ~owns_lock[p]
       /\ obs[p].st = "absent" /\ attempt[p] = 0 /\ ~fault /\ mutex_handle[p]
       /\ lockFile.st = "ok" /\ lockFile.pid = q /\ alive[q]

\* ------------------------------ check_and_acquire with a failing tasklist
\* As SpecRace, the liveness query failing in either way: with an exception
\* (CheckOwner) or with an error status.
NextQuery ==
    \/ \E p \in Procs : CreateMutex(p)
    \/ \E p \in Procs : MutexLost(p)
    \/ \E p \in Procs : FileSteps(p)
    \/ \E p \in Procs : CheckOwnerQueryError(p)
    \/ Tick
    \/ OOBDelete
    \/ OOBCorrupt

SpecQuery == Init /\ [][NextQuery]_vars

\* C30: the step of check_and_acquire in which the liveness query for the
\* owner of a record at least TTL old fails (SpecQuery) returns False and
\* leaves the file as it is.
C30_QueryFailureRejects ==
    [][\A p \in Procs :
         (At(p, "liveness") /\ StepOf(p) /\ ~fault /\ fault')
           => /\ pc'[p] = "ready" /\ ret'[p] = "false"
              /\ lockFile' = lockFile]_vars

\* C31: in SpecMain, an exception raised in a cycle never lets the next cycle
\* begin without a wait: the step that handles it, when it counts an error and
\* leaves the counter below the threshold, starts the wait of check_interval,
\* and no step goes from the body of a cycle straight to the top of the next.
C31_ErrorThenNormalWait ==
    [][InTry =>
         /\ (ErrorCounted /\ errores_recientes' < error_threshold /\ InLoop')
              => (mpc' = "sleep" /\ sleep_left' = check_interval)
         /\ ~(/\ mpc' = "loop_top"
              /\ mpc # "loop_top" \/ errores_recientes' # errores_recientes)]_vars

\* main is in the inter-cycle sleep of a cycle that found the hour outside the
\* schedule: no exception was raised and nothing was started or killed in it.
CleanCycleSleeps ==
    mpc = "sleep" /\ sleep_site = "cycle" /\ ~InSchedule(current_hour)

\* C32: in SpecMain, the step of a cycle that observes running_ok sets
\* errores_recientes to 0, and the counter is the length of the current run of
\* consecutive erroring cycles: it is 0 in the sleep of a cycle that went
\* through without an error.
C32_CounterIsConsecutiveErrors ==
    /\ [][(mpc = "check_status" /\ mpc' = "cycle_sleep" /\ estado' = "running_ok")
            => errores_recientes' = 0]_vars
    /\ [](CleanCycleSleeps => errores_recientes = 0)

\* C33: in SpecMain, a start_app or a kill_app that returns False without
\* raising leaves errores_recientes as it was: only an exception raised in the
\* cycle changes the counter upwards.
C33_WorkloadFailureNotCounted ==
    [][(StartReturnsFalse \/ KillReturnsFalse)
          => errores_recientes' = errores_recientes]_vars

\* A step in which the supervisor waits: one slice of interruptible_sleep, or the
\* time.sleep of start_app or kill_app.
WaitGoesOn ==
    \/ mpc = "sleep" /\ mpc' = "sleep" /\ sleep_left' < sleep_left
    \/ mpc = "start_wait" /\ mpc' = "start_verify"
    \/ mpc = "kill_wait" /\ mpc' = "kill_verify"

\* the seconds that step waits
Slept == IF mpc = "sleep" THEN sleep_left - sleep_left' ELSE grace_seconds

\* C34: in SpecMain, every step in which the supervisor waits (inter-cycle sleep,
\* error backoff, grace period of start_app, grace period of kill_app) lasts at
\* most chunk = 10 seconds and is taken only while stop.txt is absent: with a
\* stop.txt present the wait does not go on.
C34_EveryWaitPollsStop ==
    [][WaitGoesOn => (Slept <= chunk /\ stopFile = "absent")]_vars

\* C35: an instance whose check_and_acquire returned False keeps nothing of the
\* attempt (Spec): owns_lock is False, it holds no mutex handle and no lock file
\* with its record is on disk.
C35_RejectionLeavesNoResidue ==
    \A p \in Procs :
       (alive[p] /\ ret[p] = "false")
         => /\ ~owns_lock[p]
            /\ ~mutex_handle[p]
            /\ ~(lockFile.st = "ok" /\ lockFile.pid = p)

CycleBody ==
    \/ mpc \in {"check_status", "start_launch", "start_wait", "start_verify",
                "kill_send", "kill_wait", "kill_verify"}
    \/ mpc = "sleep" /\ sleep_site \in {"after_start", "after_kill"}

\* main is at the end of a cycle whose hour is outside CONFIG["time_ranges"]:
\* before or in its inter-cycle wait
OffCycle ==
    /\ ~InSchedule(current_hour)
    /\ mpc = "cycle_sleep" \/ (mpc = "sleep" /\ sleep_site = "cycle")

\* C37: in SpecMain, the step that reads the hour of a cycle goes straight to
\* the inter-cycle wait exactly when the hour is outside every time range, with
\* the status, the error counter and the worker's artifact untouched; none of
\* check_app_status, start_app and kill_app runs at such an hour; and the steps
\* of that cycle's wait leave the counter, the status and the artifact as they
\* are until the wait is over, the worker staying hung or absent.
C37_OffScheduleOnlyWaits ==
    /\ [][(mpc = "stop_check" /\ mpc' \in {"check_status", "cycle_sleep"})
            => /\ (mpc' = "cycle_sleep") <=> ~InSchedule(current_hour')
               /\ errores_recientes' = errores_recientes
               /\ estado' = estado /\ worker' = worker]_vars
    /\ [](CycleBody => InSchedule(current_hour))
    /\ [][OffCycle
            => /\ ~CycleBody'
               /\ estado' = estado /\ worker' = worker
               /\ (mpc' = "sleep" /\ sleep_site' = "cycle")
                    => errores_recientes' = errores_recientes
               /\ (mpc = "cycle_sleep" /\ mpc' = "sleep" /\ sleep_site' = "cycle")
                    => sleep_left' = check_interval]_vars

\* A hung worker is left alone: main is well into the wait of a cycle at an
\* hour outside the schedule.
C37_Witness ==
    /\ OffCycle /\ mpc = "sleep" /\ sleep_left < check_interval
    /\ CheckAppStatus(worker) = "hung"
    /\ stopFile = "absent"

\* main is in interruptible_sleep(10), between a kill_app that returned True
\* and the restart
InKillWait == mpc = "sleep" /\ sleep_site = "after_kill"

\* C38: in SpecMain, when stop.txt is there while the wait between kill and
\* restart still has a slice to go, main's next step leaves the loop with
\* status 0 and does not enter start_app; start_app is entered from that wait
\* only when the wait has run to its end; and once main has left the loop it
\* never comes back, so the worker stays killed and is not restarted.
C38_StopAfterKillSkipsRestart ==
    /\ [][(InKillWait /\ sleep_left > 0 /\ stopFile # "absent" /\ mpc' # mpc)
            => (LoopExit /\ exit_code' = 0 /\ ~StartCalled
                  /\ worker' = worker /\ errores_recientes' = errores_recientes)]_vars
    /\ [][(InKillWait /\ StartCalled) => sleep_left = 0]_vars
    /\ [](exit_code # -1 => ~InLoop)

\* The supervisor has ended on a stop seen between kill and restart: the
\* worker's artifact is gone and nothing was started.
C38_Witness ==
    /\ mpc = "exited" /\ exit_code = 0 /\ sleep_site = "after_kill" /\ sleep_left > 0
    /\ estado = "hung" /\ worker = NoArtifact
    /\ stopFile = "absent" /\ lockFile = Absent

\* stop.txt spells the word, in any case and with blanks around it
SaysFrozen == stopFile \in {"FROZEN", "frozen", " Frozen "}

\* main leaves check_startup_stop_file
StartupDone == mpc = "start" /\ mpc' # mpc

\* C39: in SpecMain, the startup step runs before anything of the lock: it
\* leaves the lock file alone and check_and_acquire has not been called.  With
\* a stop.txt that says FROZEN in any case the process ends with status 1 and
\* the file kept; with any other readable content the file is deleted and main
\* goes on to the acquisition; with no file or an unreadable one main goes on
\* and the file is as it was.  After a FROZEN start check_and_acquire is never
\* called and the supervisor has created no lock file.
C39_StartupStopFile ==
    /\ [][StartupDone =>
            /\ lockFile' = lockFile /\ ret[Sup] = "none" /\ pc[Sup] = "idle"
            /\ ret'[Sup] = "none" /\ ~mutex_handle'[Sup] /\ ~owns_lock'[Sup]
            /\ IF SaysFrozen
                 THEN /\ mpc' = "exited" /\ exit_code' = 1 /\ ~alive'[Sup]
                      /\ stopFile' = stopFile
                 ELSE /\ mpc' = "acquire" /\ exit_code' = exit_code /\ alive'[Sup]
                      /\ stopFile' = IF stopFile \in {"absent", "unreadable"}
                                       THEN stopFile ELSE "absent"]_vars
    /\ []((mpc = "exited" /\ ret[Sup] = "none")
            => /\ SaysFrozen /\ exit_code = 1
               /\ obs[Sup] = NoObs /\ remove_calls = 0
               /\ ~(lockFile.st = "ok" /\ lockFile.pid = Sup))

\* The process has ended at startup on a stop.txt that says frozen in small
\* letters; the file is kept and there is no lock file.
C39_Witness ==
    /\ mpc = "exited" /\ exit_code = 1 /\ ~alive[Sup]
    /\ stopFile = "frozen"
    /\ ret[Sup] = "none" /\ lockFile = Absent

====
